---------------------------- MODULE Spec2Model ----------------------------
(***************************************************************************)
(* Model of pkg/services/ngalert/writer/prom.go: the recording-rule        *)
(* Prometheus remote-write writer.                                         *)
(*                                                                         *)
(*   NewPrometheusWriter / validateSettings / createAuthOpts               *)
(*   PointsFromFrames                                                      *)
(*   PrometheusWriter.Write / promremoteLabelsFromPoint / checkWriteError  *)
(*                                                                         *)
(* Go strings that the code inspects (error messages) are sequences of     *)
(* tokens, strings.Contains is sub-sequence search, fmt.Errorf("..%w")     *)
(* is concatenation plus a link to the wrapped error.  Go maps are         *)
(* functions; a nil map and an empty map are both the empty function       *)
(* (reads of a nil map behave as reads of an empty one).  float64 values   *)
(* are the strings of Floats, "NaN" being math.NaN().                      *)
(***************************************************************************)
EXTENDS Integers, Sequences, FiniteSets, TLC

\* ------------------------------------------------------------------ bounds
\* longest collection (number of series in col.Refs)
MaxRefs == 2
\* number of goroutines calling Write on the same writer
NumCallers == 2

\* --------------------------------------------------------------- constants
MimirDuplicateTimestampError == <<"err-mimir-sample-duplicate-timestamp">>

PrometheusDuplicateTimestampError == <<"duplicate", "sample", "for", "timestamp">>

DuplicateTimestampErrors ==
  <<MimirDuplicateTimestampError, PrometheusDuplicateTimestampError>>

\* the format prefix of fmt.Errorf in Write
WritePrefix == <<"failed", "to", "write", "time", "series", ":">>

NameLabel == "__name__"

\* ------------------------------------------------------------------- errors
\* the nil error
NilErr == [kind |-> "nil"]

\* a promremote.WriteError: StatusCode() and Error()
WriteError(status, msg) == [kind |-> "write", status |-> status, msg |-> msg]

\* fmt.Errorf(prefix + "%w", err)
Errorf(prefix, err) ==
  [kind |-> "wrapped", msg |-> prefix \o err.msg, wraps |-> err]

\* the error of numeric.CollectionReaderFromFrames / cr.GetCollection
ExtractError(shape) == [kind |-> "extract", shape |-> shape]

\* strings.Contains(s, sub)
Contains(s, sub) ==
  \E i \in 1..(Len(s) - Len(sub) + 1) : SubSeq(s, i, i + Len(sub) - 1) = sub

\* --------------------------------------------------------------- label maps
LabelKeys == {NameLabel, "host"}

LabelVals == {"a", "b"}

\* data.Labels / map[string]string
LabelMaps == UNION {[ks -> LabelVals] : ks \in SUBSET LabelKeys}

EmptyLabels == [k \in {} |-> "a"]

\* delete(labels, k)
Delete(labels, k) == [x \in (DOMAIN labels) \ {k} |-> labels[x]]

\* for k, v := range extraLabels { labels[k] = v }
Overlay(labels, extraLabels) ==
  [x \in (DOMAIN labels) \cup (DOMAIN extraLabels) |->
     IF x \in DOMAIN extraLabels THEN extraLabels[x] ELSE labels[x]]

\* ------------------------------------------------------------------- values
Floats == {"0", "1.5", "NaN"}

NaN == "NaN"

\* the results (fp, empty, err) of ref.NullableFloat64Value():
\* no row at all, a null row, a row holding v, a conversion error
ValueEmpty == [fp |-> "nil", empty |-> TRUE, err |-> FALSE]

ValueNull == [fp |-> "nil", empty |-> FALSE, err |-> FALSE]

ValueOf(v) == [fp |-> v, empty |-> FALSE, err |-> FALSE]

ValueErr == [fp |-> "nil", empty |-> FALSE, err |-> TRUE]

RefValues == {ValueEmpty, ValueNull, ValueErr} \cup {ValueOf(v) : v \in Floats}

\* one series of the collection: its labels and its value
Ref(labels, value) == [labels |-> labels, value |-> value]

\* ResolveValue with 0 as the default instead of NaN
ResolveValueZeroDefault(value) ==
  IF ~value.empty /\ value.fp # "nil" THEN value.fp ELSE "0"

\* f := math.NaN(); if fp, empty, _ := ...; !empty && fp != nil { f = *fp }
ResolveValue(value) ==
  IF ~value.empty /\ value.fp # "nil" THEN value.fp ELSE NaN

\* MergeLabels with the overlay the wrong way round: the series' label wins
MergeLabelsSeriesWins(refLabels, extraLabels) ==
  Overlay(extraLabels, Delete(refLabels, NameLabel))

\* labels := ref.GetLabels().Copy(); delete(labels, "__name__");
\* for k, v := range extraLabels { labels[k] = v }
MergeLabels(refLabels, extraLabels) ==
  Overlay(Delete(refLabels, NameLabel), extraLabels)

\* RefLabelsAfter without the Copy(): the body edits the series' own map
RefLabelsAfterAliased(refLabels, pointLabels) == pointLabels

\* the labels of the caller's series once the loop body has run: the body
\* works on a copy, the series keeps its own
RefLabelsAfter(refLabels, pointLabels) == refLabels

\* the Point appended by one iteration of the loop
PointFromRef(name, t, ref, extraLabels) ==
  [Name   |-> name,
   Labels |-> MergeLabels(ref.labels, extraLabels),
   Metric |-> [T |-> t, V |-> ResolveValue(ref.value)]]

\* the frames handed to PointsFromFrames: whether the collection reader
\* accepts them, and the series it then yields
Frames(shape, refs) == [shape |-> shape, Refs |-> refs]

\* PointsFromFrames walking col.Refs backwards
PointsFromFramesReversed(name, t, fr, extraLabels) ==
  IF fr.shape # "ok"
    THEN [points |-> <<>>, err |-> ExtractError(fr.shape)]
    ELSE [points |-> [i \in 1..Len(fr.Refs) |->
                        PointFromRef(name, t, fr.Refs[Len(fr.Refs) + 1 - i],
                                     extraLabels)],
          err |-> NilErr]

\* PointsFromFrames as a function of its arguments: (points, err)
PointsFromFrames(name, t, fr, extraLabels) ==
  IF fr.shape # "ok"
    THEN [points |-> <<>>, err |-> ExtractError(fr.shape)]
    ELSE [points |-> [i \in 1..Len(fr.Refs) |->
                        PointFromRef(name, t, fr.Refs[i], extraLabels)],
          err |-> NilErr]

\* --------------------------------------------------------------- wire format
\* the orders in which `range point.Labels` may visit the keys
Orders(S) ==
  {s \in [1..Cardinality(S) -> S] :
     \A i, j \in 1..Cardinality(S) : i # j => s[i] # s[j]}

\* promremoteLabelsFromPoint, for one iteration order of the map
promremoteLabelsFromPoint(point, ord) ==
  <<[Name |-> NameLabel, Value |-> point.Name]>> \o
  [i \in 1..Len(ord) |-> [Name |-> ord[i], Value |-> point.Labels[ord[i]]]]

\* the promremote.TimeSeries built from one point
TimeSeries(point, ord) ==
  [Labels    |-> promremoteLabelsFromPoint(point, ord),
   Datapoint |-> [Timestamp |-> point.Metric.T, Value |-> point.Metric.V]]

\* every value `series` can have after the loop of Write
SeriesChoices(pts) ==
  LET ords == UNION {Orders(DOMAIN pts[i].Labels) : i \in 1..Len(pts)}
  IN  {[i \in 1..Len(pts) |-> TimeSeries(pts[i], o[i])] :
         o \in {f \in [1..Len(pts) -> ords] :
                  \A i \in 1..Len(pts) :
                    f[i] \in Orders(DOMAIN pts[i].Labels)}}

\* Batches with one WriteTimeSeries call per series
BatchesSplit(series) == [i \in 1..Len(series) |-> <<series[i]>>]

\* the calls of client.WriteTimeSeries one Write makes for its series
Batches(series) == <<series>>

\* checkWriteError without the status test
checkWriteErrorAnyStatus(writeErr) ==
  IF writeErr = NilErr THEN NilErr
  ELSE IF \E k \in 1..Len(DuplicateTimestampErrors) :
            Contains(writeErr.msg, DuplicateTimestampErrors[k])
       THEN NilErr
       ELSE writeErr

\* checkWriteError looking for the first signature only
checkWriteErrorFirstOnly(writeErr) ==
  IF writeErr = NilErr THEN NilErr
  ELSE IF writeErr.status = 400
          /\ Contains(writeErr.msg, DuplicateTimestampErrors[1])
       THEN NilErr
       ELSE writeErr

\* checkWriteError
checkWriteError(writeErr) ==
  IF writeErr = NilErr THEN NilErr
  ELSE IF writeErr.status = 400
          /\ \E k \in 1..Len(DuplicateTimestampErrors) :
               Contains(writeErr.msg, DuplicateTimestampErrors[k])
       THEN NilErr
       ELSE writeErr

\* the value Write returns for the outcome of the remote call
WriteResult(writeErr) ==
  IF checkWriteError(writeErr) # NilErr
    THEN Errorf(WritePrefix, checkWriteError(writeErr))
    ELSE NilErr

\* ------------------------------------------------------------ construction
\* setting.RecordingRuleSettings
Settings(u, timeout, user, password, headers) ==
  [URL |-> u, Timeout |-> timeout, BasicAuthUsername |-> user,
   BasicAuthPassword |-> password, CustomHeaders |-> headers]

GoodURL == "http://mimir:9009/api/v1/push"

\* a string url.Parse rejects (invalid escape)
BadURL == "http://mimir/%zz"

\* whether url.Parse(u) returns an error
UrlParseFails(u) == u = BadURL

ConfigError(msg) == [kind |-> "config", msg |-> msg]

\* validateSettings accepting a zero timeout
validateSettingsZeroTimeout(s) ==
  IF s.BasicAuthUsername # "" /\ s.BasicAuthPassword = ""
    THEN ConfigError("basic auth password is required if username is set")
  ELSE IF UrlParseFails(s.URL)
    THEN ConfigError("invalid URL")
  ELSE IF s.Timeout < 0
    THEN ConfigError("timeout must be greater than 0")
  ELSE NilErr

\* validateSettings
validateSettings(s) ==
  IF s.BasicAuthUsername # "" /\ s.BasicAuthPassword = ""
    THEN ConfigError("basic auth password is required if username is set")
  ELSE IF UrlParseFails(s.URL)
    THEN ConfigError("invalid URL")
  ELSE IF s.Timeout <= 0
    THEN ConfigError("timeout must be greater than 0")
  ELSE NilErr

\* a nil *httpclient.BasicAuthOptions
NoAuth == [isNil |-> TRUE, User |-> "", Password |-> ""]

\* createAuthOpts
createAuthOpts(username, password) ==
  IF username = "" THEN NoAuth
  ELSE [isNil |-> FALSE, User |-> username, Password |-> password]

\* the httpclient.Options NewPrometheusWriter hands to GetTransport
TransportOptions(s) ==
  [BasicAuth |-> createAuthOpts(s.BasicAuthUsername, s.BasicAuthPassword),
   Header    |-> s.CustomHeaders]

\* a nil *PrometheusWriter
NoWriter == [isNil |-> TRUE]

\* the writer built from valid settings: its promremote client and logger
NewWriter(s) ==
  [isNil  |-> FALSE,
   client |-> [UserAgent |-> "grafana-recording-rule", WriteURL |-> s.URL,
               Timeout |-> s.Timeout, Transport |-> TransportOptions(s)],
   logger |-> "l"]

\* ------------------------------------------------------------------- state
VARIABLES
  settings,        \* the settings given to NewPrometheusWriter
  env,             \* whether GetTransport / promremote.NewClient fail
  transportCalls,  \* the options of every GetTransport call so far
  newCalled,       \* NewPrometheusWriter has returned
  newErr,          \* the error it returned
  writer,          \* the writer it returned
  frames,          \* the callers' frames, by identity
  extras,          \* the callers' extraLabels maps, by identity
  argPool,         \* the argument lists callers invoke Write with
  remote,          \* the outcomes the remote-write endpoint may produce
  callers,         \* the goroutines calling into the writer
  pc,              \* where each caller is inside its call
  args,            \* the arguments of the caller's current call
  idx,             \* the loop index over col.Refs
  points,          \* the caller's local `points`
  requests,        \* the batches the call has handed to WriteTimeSeries
  writeErr,        \* the WriteError the remote call returned
  result           \* the value the call returned

ctorVars == <<settings, env, transportCalls, newCalled, newErr, writer>>

heapVars == <<frames, extras>>

poolVars == <<argPool, remote, callers>>

callVars == <<pc, args, idx, points, requests, writeErr, result>>

vars == <<ctorVars, heapVars, poolVars, callVars>>

\* ------------------------------------------------------------ input pools
SeqsUpTo(S, n) == UNION {[1..k -> S] : k \in 0..n}

Names == {"cpu_usage", "mem_usage"}

Times == {1700000000, 1700000060}

Usernames == {"", "admin"}

Passwords == {"", "secret"}

Timeouts == {-1, 0, 1, 30}

HeaderSets == {EmptyLabels, [k \in {"X-Scope-OrgID"} |-> "1"]}

SettingsPool ==
  {Settings(u, tm, us, pw, h) :
     u \in {GoodURL, BadURL}, tm \in Timeouts, us \in Usernames,
     pw \in Passwords, h \in HeaderSets}

HostA == [k \in {"host"} |-> "a"]

HostB == [k \in {"host"} |-> "b"]

NameA == [k \in {NameLabel} |-> "a"]

NameAHostA == [k \in {NameLabel, "host"} |-> "a"]

\* every label map with one value, and every value with one label map
RefPool ==
  {Ref(l, ValueOf("1.5")) : l \in LabelMaps} \cup
  {Ref(HostA, v) : v \in RefValues}

WriteRefs ==
  {Ref(NameAHostA, ValueOf("1.5")), Ref(HostB, ValueNull),
   Ref(EmptyLabels, ValueEmpty)}

ConcRefs == {Ref(NameAHostA, ValueOf("1.5")), Ref(EmptyLabels, ValueNull)}

FramesOver(refs) ==
  {Frames("ok", rs) : rs \in SeqsUpTo(refs, MaxRefs)} \cup
  {Frames("badFrames", <<>>), Frames("badCollection", <<>>)}

Statuses == {0, 400, 404, 500}

Messages ==
  {<<>>,
   <<"bad", "request">>,
   <<"duplicate", "sample", "for", "series">>,
   <<"send", "data", ":">> \o MimirDuplicateTimestampError,
   <<"rpc", "error", ":">> \o PrometheusDuplicateTimestampError \o <<"1700000000">>}

RemoteOutcomes ==
  {NilErr} \cup {WriteError(st, m) : st \in Statuses, m \in Messages}

ValidSettings == Settings(GoodURL, 30, "", "", EmptyLabels)

\* the argument list of one call: name, t, and the identities of the
\* frames and of the extraLabels map
Args(name, t, f, e) == [name |-> name, t |-> t, frames |-> f, extraLabels |-> e]

NoArgs == Args("", 0, "", "")

\* the call's arguments together with the contents they had at the call
Bound(a) ==
  [name |-> a.name, t |-> a.t, frames |-> a.frames,
   extraLabels |-> a.extraLabels,
   framesAtCall |-> IF a.frames \in DOMAIN frames
                      THEN frames[a.frames] ELSE Frames("ok", <<>>),
   extrasAtCall |-> IF a.extraLabels \in DOMAIN extras
                      THEN extras[a.extraLabels] ELSE EmptyLabels]

\* --------------------------------------------------------------------- Init
IdleCalls ==
  /\ pc = [p \in callers |-> "idle"]
  /\ args = [p \in callers |-> Bound(NoArgs)]
  /\ idx = [p \in callers |-> 0]
  /\ points = [p \in callers |-> <<>>]
  /\ requests = [p \in callers |-> <<>>]
  /\ writeErr = [p \in callers |-> NilErr]
  /\ result = [p \in callers |-> NilErr]

Constructed ==
  /\ settings = ValidSettings
  /\ env = [transportFails |-> FALSE, clientFails |-> FALSE]
  /\ transportCalls = <<TransportOptions(ValidSettings)>>
  /\ newCalled = TRUE
  /\ newErr = NilErr
  /\ writer = NewWriter(ValidSettings)

\* before NewPrometheusWriter: any settings, any behaviour of the factories
InitNew ==
  /\ settings \in SettingsPool
  /\ env \in [transportFails : BOOLEAN, clientFails : BOOLEAN]
  /\ transportCalls = <<>>
  /\ newCalled = FALSE
  /\ newErr = NilErr
  /\ writer = NoWriter
  /\ frames = [f \in {} |-> Frames("ok", <<>>)]
  /\ extras = [e \in {} |-> EmptyLabels]
  /\ argPool = {}
  /\ remote = {}
  /\ callers = {}
  /\ IdleCalls

\* one caller about to call PointsFromFrames on any input
InitPoints ==
  /\ Constructed
  /\ frames \in [{"f1"} -> FramesOver(RefPool)]
  /\ extras \in [{"e1"} -> LabelMaps]
  /\ argPool = {Args(n, t, "f1", "e1") : n \in Names, t \in Times}
  /\ remote = {}
  /\ callers = {1}
  /\ IdleCalls

\* one caller of Write, any outcome of the remote call
InitWrite ==
  /\ Constructed
  /\ frames \in [{"f1"} -> FramesOver(WriteRefs)]
  /\ extras \in [{"e1"} -> {EmptyLabels, HostB, NameA, NameAHostA}]
  /\ argPool = {Args(n, t, "f1", "e1") : n \in Names, t \in Times}
  /\ remote = RemoteOutcomes
  /\ callers = {1}
  /\ IdleCalls

\* NumCallers goroutines sharing one writer and one collection
InitConc ==
  /\ Constructed
  /\ frames \in [{"f1"} -> FramesOver(ConcRefs)]
  /\ extras = [e \in {"e1", "e2"} |-> IF e = "e1" THEN EmptyLabels ELSE HostB]
  /\ argPool = {Args("cpu_usage", 1700000000, "f1", e) : e \in {"e1", "e2"}}
  /\ remote = {NilErr,
               WriteError(400, <<"send", "data", ":">> \o MimirDuplicateTimestampError),
               WriteError(500, <<"bad", "request">>)}
  /\ callers = 1..NumCallers
  /\ IdleCalls

\* ------------------------------------------------------------------ actions
\* NewPrometheusWriter, the whole function
NewPrometheusWriter ==
  /\ ~newCalled
  /\ newCalled' = TRUE
  /\ IF validateSettings(settings) # NilErr
       THEN /\ newErr' = validateSettings(settings)
            /\ writer' = NoWriter
            /\ UNCHANGED transportCalls
       ELSE /\ transportCalls' = Append(transportCalls, TransportOptions(settings))
            /\ IF env.transportFails
                 THEN newErr' = [kind |-> "transport"] /\ writer' = NoWriter
               ELSE IF env.clientFails
                 THEN newErr' = [kind |-> "client"] /\ writer' = NoWriter
               ELSE newErr' = NilErr /\ writer' = NewWriter(settings)
  /\ UNCHANGED <<settings, env, heapVars, poolVars, callVars>>

\* the frames after PointsFromFrames has produced pts from them
FramesAfter(fr, pts) ==
  [fr EXCEPT !.Refs =
     [i \in 1..Len(fr.Refs) |->
        [fr.Refs[i] EXCEPT !.labels = RefLabelsAfter(@, pts[i].Labels)]]]

\* a call of PointsFromFrames, the whole function
CallPointsFromFrames(p) ==
  /\ pc[p] = "idle"
  /\ \E a \in argPool :
       LET r == PointsFromFrames(a.name, a.t, frames[a.frames], extras[a.extraLabels])
       IN  /\ args' = [args EXCEPT ![p] = Bound(a)]
           /\ points' = [points EXCEPT ![p] = r.points]
           /\ result' = [result EXCEPT ![p] = r.err]
           /\ frames' = IF r.err = NilErr
                          THEN [frames EXCEPT ![a.frames] = FramesAfter(@, r.points)]
                          ELSE frames
  /\ pc' = [pc EXCEPT ![p] = "returned"]
  /\ UNCHANGED <<ctorVars, extras, poolVars, idx, requests, writeErr>>

\* Write is entered and reads the collection out of the frames; a malformed
\* collection makes it return the extraction error
WriteBegin(p) ==
  /\ pc[p] = "idle"
  /\ ~writer.isNil
  /\ \E a \in argPool :
       /\ args' = [args EXCEPT ![p] = Bound(a)]
       /\ IF frames[a.frames].shape # "ok"
            THEN /\ result' = [result EXCEPT ![p] = ExtractError(frames[a.frames].shape)]
                 /\ pc' = [pc EXCEPT ![p] = "done"]
            ELSE /\ result' = [result EXCEPT ![p] = NilErr]
                 /\ pc' = [pc EXCEPT ![p] = "loop"]
  /\ idx' = [idx EXCEPT ![p] = 1]
  /\ points' = [points EXCEPT ![p] = <<>>]
  /\ requests' = [requests EXCEPT ![p] = <<>>]
  /\ writeErr' = [writeErr EXCEPT ![p] = NilErr]
  /\ UNCHANGED <<ctorVars, heapVars, poolVars>>

\* one iteration of the loop over col.Refs
ExtractRef(p) ==
  /\ pc[p] = "loop"
  /\ idx[p] <= Len(frames[args[p].frames].Refs)
  /\ LET f  == args[p].frames
         pt == PointFromRef(args[p].name, args[p].t, frames[f].Refs[idx[p]],
                            extras[args[p].extraLabels])
     IN  /\ points' = [points EXCEPT ![p] = Append(@, pt)]
         /\ frames' = [frames EXCEPT ![f].Refs[idx[p]].labels =
                                        RefLabelsAfter(@, pt.Labels)]
  /\ idx' = [idx EXCEPT ![p] = @ + 1]
  /\ UNCHANGED <<ctorVars, extras, poolVars, pc, args, requests, writeErr, result>>

\* the series are encoded and written, the outcome classified, Write returns
Send(p) ==
  /\ pc[p] = "loop"
  /\ idx[p] > Len(frames[args[p].frames].Refs)
  /\ \E series \in SeriesChoices(points[p]), w \in remote :
       /\ requests' = [requests EXCEPT ![p] = @ \o Batches(series)]
       /\ writeErr' = [writeErr EXCEPT ![p] = w]
       /\ result' = [result EXCEPT ![p] = WriteResult(w)]
  /\ pc' = [pc EXCEPT ![p] = "done"]
  /\ UNCHANGED <<ctorVars, heapVars, poolVars, args, idx, points>>

\* the caller takes the result; it may call again
WriteReturn(p) ==
  /\ pc[p] = "done"
  /\ pc' = [pc EXCEPT ![p] = "idle"]
  /\ args' = [args EXCEPT ![p] = Bound(NoArgs)]
  /\ idx' = [idx EXCEPT ![p] = 0]
  /\ points' = [points EXCEPT ![p] = <<>>]
  /\ requests' = [requests EXCEPT ![p] = <<>>]
  /\ writeErr' = [writeErr EXCEPT ![p] = NilErr]
  /\ result' = [result EXCEPT ![p] = NilErr]
  /\ UNCHANGED <<ctorVars, heapVars, poolVars>>

NextNew == NewPrometheusWriter

NextPoints == \E p \in callers : CallPointsFromFrames(p)

Next ==
  \E p \in callers :
    \/ WriteBegin(p)
    \/ ExtractRef(p)
    \/ Send(p)
    \/ WriteReturn(p)

SpecNew == InitNew /\ [][NextNew]_vars

SpecPoints == InitPoints /\ [][NextPoints]_vars

SpecWrite == InitWrite /\ [][Next]_vars

SpecConc == InitConc /\ [][Next]_vars

\* ------------------------------------------------------------------ claims
\* a message carries one of the two duplicate-timestamp signatures
HasSignature(msg) ==
  \/ Contains(msg, <<"err-mimir-sample-duplicate-timestamp">>)
  \/ Contains(msg, <<"duplicate", "sample", "for", "timestamp">>)

\* the caller's Write has returned after a successful extraction
Wrote(p) == pc[p] = "done" /\ args[p].framesAtCall.shape = "ok"

\* the caller's PointsFromFrames has returned for a well-formed collection
Extracted(p) == pc[p] = "returned" /\ args[p].framesAtCall.shape = "ok"

\* C1: once extraction has succeeded, Write returns nil exactly when the
\* remote call reported no error or reported a status-400 error whose
\* message contains a duplicate-timestamp signature; otherwise it returns
\* the remote error wrapped with the prefix "failed to write time series: ".
C1_WriteResult ==
  \A p \in callers :
    Wrote(p) =>
      LET w == writeErr[p]
          tolerated == w # NilErr /\ w.status = 400 /\ HasSignature(w.msg)
      IN  /\ (result[p] = NilErr) <=> (w = NilErr \/ tolerated)
          /\ result[p] # NilErr =>
               /\ result[p].kind = "wrapped"
               /\ result[p].wraps = w
               /\ result[p].msg =
                    <<"failed", "to", "write", "time", "series", ":">> \o w.msg

C1_Witness ==
  \E p \in callers :
    /\ Wrote(p)
    /\ writeErr[p] # NilErr
    /\ writeErr[p].status = 400
    /\ Contains(writeErr[p].msg, PrometheusDuplicateTimestampError)
    /\ result[p] = NilErr

\* C2 (as stated): a failure with any status from 400 to 499 whose message
\* contains a duplicate-timestamp signature makes Write return nil.
C2_Original ==
  \A p \in callers :
    (/\ Wrote(p)
     /\ writeErr[p] # NilErr
     /\ writeErr[p].status \in 400..499
     /\ HasSignature(writeErr[p].msg))
    => result[p] = NilErr

\* C2 (amended): a failure with status exactly 400 whose message contains a
\* duplicate-timestamp signature makes Write return nil.
C2_Status400Tolerated ==
  \A p \in callers :
    (/\ Wrote(p)
     /\ writeErr[p] # NilErr
     /\ writeErr[p].status = 400
     /\ HasSignature(writeErr[p].msg))
    => result[p] = NilErr

C2_Witness ==
  \E p \in callers :
    /\ Wrote(p)
    /\ writeErr[p] # NilErr
    /\ writeErr[p].status = 400
    /\ Contains(writeErr[p].msg, MimirDuplicateTimestampError)
    /\ result[p] = NilErr

\* C3: for a well-formed collection of N series PointsFromFrames returns N
\* points and no error; the i-th point is made from the i-th series and
\* carries the given name and timestamp.
C3_OnePointPerSeries ==
  \A p \in callers :
    Extracted(p) =>
      LET refs == args[p].framesAtCall.Refs
          ex   == args[p].extrasAtCall
      IN  /\ result[p] = NilErr
          /\ Len(points[p]) = Len(refs)
          /\ \A i \in 1..Len(refs) :
               /\ points[p][i].Name = args[p].name
               /\ points[p][i].Metric.T = args[p].t
               /\ \A k \in (DOMAIN refs[i].labels) \ ({"__name__"} \cup DOMAIN ex) :
                    /\ k \in DOMAIN points[p][i].Labels
                    /\ points[p][i].Labels[k] = refs[i].labels[k]
               /\ (DOMAIN points[p][i].Labels) \ (DOMAIN ex) \subseteq DOMAIN refs[i].labels
               /\ refs[i].value.fp # "nil" => points[p][i].Metric.V = refs[i].value.fp

C3_Witness ==
  \E p \in callers :
    /\ Extracted(p)
    /\ Len(points[p]) = 2
    /\ args[p].framesAtCall.Refs[1] # args[p].framesAtCall.Refs[2]
    /\ args[p].framesAtCall.Refs[1].labels # args[p].framesAtCall.Refs[2].labels
    /\ "host" \notin DOMAIN args[p].extrasAtCall

\* C4: a point's labels are every extraLabels entry (the extra label wins
\* over a series label of the same key), every series label whose key is
\* neither __name__ nor an extraLabels key, and nothing else.
C4_LabelMerge ==
  \A p \in callers :
    Extracted(p) =>
      \A i \in 1..Len(points[p]) :
        LET L == points[p][i].Labels
            R == args[p].framesAtCall.Refs[i].labels
            E == args[p].extrasAtCall
        IN  /\ \A k \in DOMAIN E : k \in DOMAIN L /\ L[k] = E[k]
            /\ \A k \in (DOMAIN R) \ ({"__name__"} \cup DOMAIN E) :
                 k \in DOMAIN L /\ L[k] = R[k]
            /\ DOMAIN L \subseteq (DOMAIN E) \cup ((DOMAIN R) \ {"__name__"})

C4_Witness ==
  \E p \in callers :
    /\ Extracted(p)
    /\ \E i \in 1..Len(points[p]) :
         LET R == args[p].framesAtCall.Refs[i].labels
             E == args[p].extrasAtCall
         IN  /\ "host" \in DOMAIN R
             /\ "host" \in DOMAIN E
             /\ R["host"] # E["host"]
             /\ points[p][i].Labels["host"] = E["host"]

\* C5: no point returned by PointsFromFrames has the key __name__ among its
\* labels, whatever the collection and whatever the extraLabels.
C5_NoNameLabel ==
  \A p \in callers :
    Extracted(p) =>
      \A i \in 1..Len(points[p]) : "__name__" \notin DOMAIN points[p][i].Labels

\* C6: every TimeSeries handed to the remote-write client has exactly one
\* label named __name__, the first one, valued with Write's name; the other
\* labels are the point's labels, each key once; timestamp and value are
\* the point's.
C6_WireSeries ==
  \A p \in callers :
    Wrote(p) =>
      \A b \in 1..Len(requests[p]) :
        \A i \in 1..Len(requests[p][b]) :
          LET ts  == requests[p][b][i]
              pt  == points[p][i]
              n   == Len(ts.Labels)
          IN  /\ n >= 1
              /\ ts.Labels[1] = [Name |-> "__name__", Value |-> args[p].name]
              /\ \A j \in 2..n : ts.Labels[j].Name # "__name__"
              /\ n - 1 = Cardinality(DOMAIN pt.Labels)
              /\ \A j, k \in 2..n : j # k => ts.Labels[j].Name # ts.Labels[k].Name
              /\ \A j \in 2..n :
                   /\ ts.Labels[j].Name \in DOMAIN pt.Labels
                   /\ ts.Labels[j].Value = pt.Labels[ts.Labels[j].Name]
              /\ ts.Datapoint.Timestamp = pt.Metric.T
              /\ ts.Datapoint.Value = pt.Metric.V

\* C7: a point's value is NaN when the series value is absent or null and
\* the series' own value otherwise; a missing value neither fails the call
\* nor drops the series.
C7_MissingIsNaN ==
  \A p \in callers :
    Extracted(p) =>
      /\ result[p] = NilErr
      /\ Len(points[p]) = Len(args[p].framesAtCall.Refs)
      /\ \A i \in 1..Len(points[p]) :
           LET v == args[p].framesAtCall.Refs[i].value
           IN  IF v.empty \/ v.fp = "nil"
                 THEN points[p][i].Metric.V = "NaN"
                 ELSE points[p][i].Metric.V = v.fp

C7_Witness ==
  \E p \in callers :
    /\ Extracted(p)
    /\ \E i \in 1..Len(points[p]) :
         /\ args[p].framesAtCall.Refs[i].value = ValueNull
         /\ points[p][i].Metric.V = "NaN"

\* C8: with a username and no password, a timeout <= 0 or an unparsable
\* URL, NewPrometheusWriter returns an error and no writer and never calls
\* GetTransport; with valid settings and working factories it returns a
\* writer and no error, and GetTransport gets basic-auth options exactly
\* when the username is non-empty.
C8_Construction ==
  LET invalid == \/ settings.BasicAuthUsername # "" /\ settings.BasicAuthPassword = ""
                 \/ settings.Timeout <= 0
                 \/ UrlParseFails(settings.URL)
  IN  /\ ~newCalled => transportCalls = <<>> /\ writer = NoWriter
      /\ newCalled =>
           /\ invalid =>
                /\ newErr # NilErr
                /\ writer = NoWriter
                /\ transportCalls = <<>>
           /\ ~invalid =>
                /\ Len(transportCalls) = 1
                /\ transportCalls[1].BasicAuth.isNil <=> settings.BasicAuthUsername = ""
                /\ ~transportCalls[1].BasicAuth.isNil =>
                     /\ transportCalls[1].BasicAuth.User = settings.BasicAuthUsername
                     /\ transportCalls[1].BasicAuth.Password = settings.BasicAuthPassword
           /\ (~invalid /\ ~env.transportFails /\ ~env.clientFails) =>
                /\ newErr = NilErr
                /\ ~writer.isNil

C8_Witness ==
  /\ newCalled
  /\ settings.Timeout = 0
  /\ settings.BasicAuthUsername = ""
  /\ ~UrlParseFails(settings.URL)
  /\ newErr # NilErr
  /\ writer = NoWriter
  /\ transportCalls = <<>>

\* C9: a Write makes at most one remote-write call: none when extraction
\* fails (the extraction error is returned), exactly one carrying all N
\* series when it succeeds, whatever the outcome of that call.
C9_OneRemoteCall ==
  \A p \in callers :
    /\ Len(requests[p]) <= 1
    /\ pc[p] = "loop" => requests[p] = <<>>
    /\ (pc[p] = "done" /\ args[p].framesAtCall.shape # "ok") =>
         /\ requests[p] = <<>>
         /\ result[p].kind = "extract"
    /\ Wrote(p) =>
         /\ Len(requests[p]) = 1
         /\ Len(requests[p][1]) = Len(args[p].framesAtCall.Refs)

C9_Witness ==
  \E p \in callers :
    /\ Wrote(p)
    /\ Len(args[p].framesAtCall.Refs) = 2
    /\ writeErr[p] # NilErr
    /\ writeErr[p].status = 500
    /\ Len(requests[p]) = 1
    /\ Len(requests[p][1]) = 2

\* C10: under any interleaving of Write calls on one writer, what a call
\* sends and returns is determined by its own arguments and by the remote's
\* answer to it, and no step of Write changes the writer, the callers'
\* collections or the callers' extraLabels maps.
C10_Independent ==
  /\ [](\A p \in callers :
          pc[p] = "done" =>
            LET a == args[p]
                e == PointsFromFrames(a.name, a.t, a.framesAtCall, a.extrasAtCall)
            IN  IF e.err # NilErr
                  THEN result[p] = e.err /\ requests[p] = <<>>
                  ELSE /\ requests[p] \in {<<s>> : s \in SeriesChoices(e.points)}
                       /\ result[p] = WriteResult(writeErr[p]))
  /\ [][frames' = frames /\ extras' = extras /\ writer' = writer]_vars

C10_Witness ==
  \E p, q \in callers :
    /\ p # q
    /\ pc[p] = "done"
    /\ Len(requests[p]) = 1
    /\ Len(requests[p][1]) >= 1
    /\ pc[q] = "loop"
    /\ idx[q] > 1
    /\ args[p].frames = args[q].frames
    /\ args[p].extraLabels # args[q].extraLabels

=============================================================================
